---- MODULE Spec2Model ----
(***************************************************************************)
(* Model of app.py: per-session upload directories on the filesystem, one  *)
(* process-wide InMemoryDocumentStore, and the three handlers add_files,   *)
(* delete_files and run_search wired to the Gradio buttons.                *)
(*                                                                         *)
(* Spec     : the handlers called one at a time (each call is one step).   *)
(* SpecConc : the handlers run by two threads whose filesystem and index   *)
(*            steps interleave.                                            *)
(* SpecGui  : the handlers reached through the buttons of `demo`.          *)
(***************************************************************************)
EXTENDS Integers, Sequences, FiniteSets, TLC

VARIABLES fs, document_store, ret, th, ncalls, user_id

vars == <<fs, document_store, ret, th, ncalls, user_id>>

(* ---------------------------- bounds ----------------------------------- *)

\* longest `files` list handed to add_files
MaxFiles == 1

\* most answers the reader is let to return (never more than Reader_top_k)
MaxAnswers == 2

\* calls started in SpecConc
MaxCalls == 3

\* longest `files` list of one upload click in SpecUpload
MaxBatch == 2

(* ---------------------------- data ------------------------------------- *)

\* uuid4 strings
Tokens == {"s1", "s2"}

\* people using the page served by one process
Users == {"u1", "u2"}

\* worker threads of the server
Threads == {"t1", "t2"}

\* file names, one character per element
A_TXT == <<"a", ".", "t", "x", "t">>
B_PDF == <<"b", ".", "P", "D", "F">>
N_MD == <<"n", ".", "m", "d">>

FileNames == {A_TXT, B_PDF, N_MD}

\* file bytes: "bad" is a blob the format's converter cannot parse
Contents == {"fox", "bad"}

Queries == {"brown fox"}

\* the temporary directory the browser upload lands in
UploadDir == "gradio"

\* an uploaded file object: file.name is a path, file.read() its bytes
Uploads == [name : {<<UploadDir, n>> : n \in FileNames}, bytes : Contents]

RECURSIVE SeqsUpTo(_, _)
SeqsUpTo(S, n) ==
    IF n = 0 THEN {<<>>}
    ELSE LET shorter == SeqsUpTo(S, n - 1)
         IN  shorter \cup {Append(q, x) : q \in {r \in shorter : Len(r) = n - 1}, x \in S}

FileLists == SeqsUpTo(Uploads, MaxFiles)

\* the multi-file uploads of SpecUpload
BatchLists == SeqsUpTo(Uploads, MaxBatch)

\* the uploads of the interleaved calls: nothing, or one file
OneFileLists == {<<>>} \cup {<<u>> : u \in Uploads}

Min(a, b) == IF a < b THEN a ELSE b

Max(S) == CHOOSE x \in S : \A y \in S : y <= x

(* ---------------------------- os.path ---------------------------------- *)

\* os.path.join(SESSIONS_DIR, user_id): the path below SESSIONS_DIR
UserDirPath(uid) == <<uid>>

\* os.path.join(user_dir, name)
join(dir, name) == Append(dir, name)

\* os.path.basename(path)
basename(path) == path[Len(path)]

\* os.path.splitext(file)[-1]: from the last dot on, unless only dots precede it
splitext_ext(file) ==
    LET dots == {i \in 1..Len(file) : file[i] = "."}
    IN  IF dots = {} THEN <<>>
        ELSE LET k == Max(dots)
             IN  IF \E i \in 1..(k - 1) : file[i] # "."
                 THEN SubSeq(file, k, Len(file))
                 ELSE <<>>

\* the extension taken without .lower()
lower_forgotten(s) == s

\* str.lower() on the characters used in file names
LowerChar(c) ==
    CASE c = "P" -> "p"
      [] c = "D" -> "d"
      [] c = "F" -> "f"
      [] c = "T" -> "t"
      [] c = "X" -> "x"
      [] OTHER -> c

lower(s) == [i \in 1..Len(s) |-> LowerChar(s[i])]

\* the keys of `converters`
ConverterKeys ==
    { <<".", "p", "d", "f">>, <<".", "t", "x", "t">>, <<".", "d", "o", "c", "x">> }

\* ext = os.path.splitext(file)[-1].lower()
ExtOf(file) == lower(splitext_ext(file))

\* converters.get(ext) is truthy
HasConverter(file) == ExtOf(file) \in ConverterKeys

(* ---------------------------- filesystem ------------------------------- *)

NoFiles == [n \in {} |-> "fox"]

AbsentDir == [exists |-> FALSE, files |-> NoFiles]

EmptyDir == [exists |-> TRUE, files |-> NoFiles]

\* os.makedirs(user_dir, exist_ok=True)
makedirs_exist_ok(f, uid) ==
    IF f[uid].exists THEN f ELSE [f EXCEPT ![uid] = EmptyDir]

\* get_user_dir without its os.makedirs
get_user_dir_no_create(f, uid) == f

\* get_user_dir that hands out a fresh, emptied directory
get_user_dir_fresh(f, uid) == [f EXCEPT ![uid] = EmptyDir]

\* get_user_dir(user_id): the filesystem after the call
get_user_dir(f, uid) == makedirs_exist_ok(f, uid)

\* open(dest_path, "wb") succeeds only in an existing directory
CanOpen(f, uid) == f[uid].exists

\* a write that leaves an existing file of that name alone
WriteFile_keep_existing(f, uid, file) ==
    LET dest == basename(file.name)
        old == f[uid].files
    IN  [f EXCEPT ![uid].files =
            [n \in DOMAIN old \cup {dest} |-> IF n \in DOMAIN old THEN old[n] ELSE file.bytes]]

\* with open(dest_path, "wb") as f: f.write(file.read())
WriteFile(f, uid, file) ==
    LET dest == basename(file.name)
        old == f[uid].files
    IN  [f EXCEPT ![uid].files =
            [n \in DOMAIN old \cup {dest} |-> IF n = dest THEN file.bytes ELSE old[n]]]

\* the loop of add_files over `files`
RECURSIVE WriteAll(_, _, _)
WriteAll(f, uid, files) ==
    IF files = <<>> THEN f
    ELSE WriteAll(WriteFile(f, uid, Head(files)), uid, Tail(files))

\* rmtree called on SESSIONS_DIR instead of user_dir
rmtree_sessions_dir(f, uid) == [s \in DOMAIN f |-> AbsentDir]

\* shutil.rmtree(user_dir)
rmtree(f, uid) == [f EXCEPT ![uid] = AbsentDir]

\* delete_files without the os.makedirs that follows rmtree
makedirs_forgotten(f, uid) == f

\* os.makedirs(user_dir), called on a path that does not exist
makedirs(f, uid) == [f EXCEPT ![uid].exists = TRUE]

\* the file names os.walk(user_dir) yields (nothing for a missing directory)
walk(f, uid) == IF f[uid].exists THEN DOMAIN f[uid].files ELSE {}

(* ---------------------------- loading ---------------------------------- *)

\* converter.convert raises on bytes it cannot parse
ConvertFails(bytes) == bytes = "bad"

\* converter.convert(..., meta={"name": file, "path": filepath}) then
\* preprocessor.process([doc]): the passages of one file
Passages(uid, file, bytes) ==
    { [content |-> bytes,
       meta |-> [name |-> file, path |-> join(UserDirPath(uid), file)]] }

\* the files of the walk that have a converter
Recognized(f, uid) == {n \in walk(f, uid) : HasConverter(n)}

\* the walk raises when some recognized file does not convert
LoadFails(f, uid) == \E n \in Recognized(f, uid) : ConvertFails(f[uid].files[n])

\* all_docs after the walk of lines 61-69
LoadAll(f, uid) ==
    UNION {Passages(uid, n, f[uid].files[n]) : n \in Recognized(f, uid)}

(* ---------------------------- index and pipeline ----------------------- *)

\* run_search without the delete_documents() before the write
delete_documents_forgotten(store) == store

\* document_store.delete_documents()
delete_documents(store) == {}

\* a write that drops the passages handed to it
write_documents_nothing(store, docs) == store

\* document_store.write_documents(all_docs)
write_documents(store, docs) == store \cup docs

\* Reader top_k
Reader_top_k == 5

\* an answer carries the context and the meta of the passage it was read from
AnswerOf(doc) == [context |-> doc.content, meta |-> doc.meta]

\* prediction["answers"]: up to top_k answers read from indexed passages
PipelineAnswers(store, query) ==
    SeqsUpTo({AnswerOf(d) : d \in store}, Min(Reader_top_k, MaxAnswers))

(* ---------------------------- rendering -------------------------------- *)

\* the rendered value is kept as the pieces it is concatenated from
Piece(kind, extrait, fichier, chemin) ==
    [kind |-> kind, Extrait |-> extrait, Fichier |-> fichier, Chemin |-> chemin]

NoResultsMsg == Piece("Aucun passage trouve.", "", <<>>, <<>>)

Divider == Piece("\n---\n", "", <<>>, <<>>)

\* the f-string of line 80
Block(ans) == Piece("block", ans.context, ans.meta.name, ans.meta.path)

\* the blocks concatenated with nothing between them
RECURSIVE JoinBlocks_no_divider(_)
JoinBlocks_no_divider(results) ==
    IF Len(results) = 1 THEN <<Head(results)>>
    ELSE <<Head(results)>> \o JoinBlocks_no_divider(Tail(results))

\* "\n---\n".join(results)
RECURSIVE JoinBlocks(_)
JoinBlocks(results) ==
    IF Len(results) = 1 THEN <<Head(results)>>
    ELSE <<Head(results), Divider>> \o JoinBlocks(Tail(results))

\* lines 77-83
Render(answers) ==
    LET results == [i \in 1..Len(answers) |-> Block(answers[i])]
    IN  IF results # <<>> THEN JoinBlocks(results) ELSE <<NoResultsMsg>>

\* the answer blocks of a rendered value
BlocksOf(out) == {out[i] : i \in {j \in 1..Len(out) : out[j].kind = "block"}}

(* ---------------------------- results of calls ------------------------- *)

NoException == "none"

NoCall == [fn |-> "none", user_id |-> "none", raised |-> NoException, value |-> <<>>]

Returned(fn, uid, v) == [fn |-> fn, user_id |-> uid, raised |-> NoException, value |-> v]

Raised(fn, uid, exc) == [fn |-> fn, user_id |-> uid, raised |-> exc, value |-> <<>>]

\* a message that counts the distinct names instead of len(files)
AddedMsg_distinct_names(files) ==
    <<Cardinality({files[i].name : i \in 1..Len(files)}), "fichier(s) ajoute(s).">>

\* f"{len(files)} fichier(s) ajoute(s)."
AddedMsg(files) == <<Len(files), "fichier(s) ajoute(s).">>

DeletedMsg == <<"Tous les fichiers ont ete supprimes.">>

(* ---------------------------- threads ---------------------------------- *)

\* a thread between calls; the fields are the locals of the handler it runs
Idle == [pc |-> "idle", fn |-> "none", user_id |-> "none", files |-> <<>>,
         i |-> 1, todo |-> {}, all_docs |-> {}, query |-> "none"]

AllIdle == \A t \in Threads : th[t].pc = "idle"

(* ---------------------------- initial state ---------------------------- *)

\* SESSIONS_DIR exists and is empty, the store is empty, demo drew its uuid4
Init ==
    /\ fs = [s \in Tokens |-> AbsentDir]
    /\ document_store = {}
    /\ ret = NoCall
    /\ th = [t \in Threads |-> Idle]
    /\ ncalls = 0
    /\ user_id = CHOOSE s \in Tokens : TRUE

(* ---------------------------- whole handlers --------------------------- *)

\* add_files(user_id, files)
add_files(uid, files) ==
    /\ AllIdle
    /\ fs' = WriteAll(get_user_dir(fs, uid), uid, files)
    /\ ret' = Returned("add_files", uid, AddedMsg(files))
    /\ UNCHANGED <<document_store, th, ncalls, user_id>>

\* delete_files(user_id)
delete_files(uid) ==
    /\ AllIdle
    /\ fs' = makedirs(rmtree(get_user_dir(fs, uid), uid), uid)
    /\ ret' = Returned("delete_files", uid, DeletedMsg)
    /\ UNCHANGED <<document_store, th, ncalls, user_id>>

\* the index at line 74 of a run_search whose walk did not raise
IndexAtQuery(f, store, uid) ==
    write_documents(delete_documents(store), LoadAll(f, uid))

\* run_search(user_id, query): a converter raises during the walk
run_search_convert_raises(uid, query) ==
    /\ AllIdle
    /\ LoadFails(get_user_dir(fs, uid), uid)
    /\ fs' = get_user_dir(fs, uid)
    /\ ret' = Raised("run_search", uid, "ExtractionError")
    /\ UNCHANGED <<document_store, th, ncalls, user_id>>

\* run_search with pipeline.run wrapped in a try that renders nothing found
run_search_pipeline_swallowed(uid, query) ==
    /\ AllIdle
    /\ ~LoadFails(get_user_dir(fs, uid), uid)
    /\ fs' = get_user_dir(fs, uid)
    /\ document_store' = IndexAtQuery(fs', document_store, uid)
    /\ ret' = Returned("run_search", uid, Render(<<>>))
    /\ UNCHANGED <<th, ncalls, user_id>>

\* run_search(user_id, query): pipeline.run raises
run_search_pipeline_raises(uid, query) ==
    /\ AllIdle
    /\ ~LoadFails(get_user_dir(fs, uid), uid)
    /\ fs' = get_user_dir(fs, uid)
    /\ document_store' = IndexAtQuery(fs', document_store, uid)
    /\ ret' = Raised("run_search", uid, "PipelineError")
    /\ UNCHANGED <<th, ncalls, user_id>>

\* run_search(user_id, query): the call returns
run_search_returns(uid, query) ==
    /\ AllIdle
    /\ ~LoadFails(get_user_dir(fs, uid), uid)
    /\ fs' = get_user_dir(fs, uid)
    /\ document_store' = IndexAtQuery(fs', document_store, uid)
    /\ \E answers \in PipelineAnswers(document_store', query) :
          ret' = Returned("run_search", uid, Render(answers))
    /\ UNCHANGED <<th, ncalls, user_id>>

run_search(uid, query) ==
    \/ run_search_convert_raises(uid, query)
    \/ run_search_pipeline_raises(uid, query)
    \/ run_search_returns(uid, query)

Next ==
    \/ \E uid \in Tokens, files \in FileLists : add_files(uid, files)
    \/ \E uid \in Tokens : delete_files(uid)
    \/ \E uid \in Tokens, query \in Queries : run_search(uid, query)

Spec == Init /\ [][Next]_vars

(* ---------------------------- handlers step by step -------------------- *)

Goto(t, label) == th' = [th EXCEPT ![t].pc = label]

\* the handler of thread t returns v
Return(t, v) ==
    /\ ret' = Returned(th[t].fn, th[t].user_id, v)
    /\ th' = [th EXCEPT ![t] = Idle]

\* the handler of thread t is left by exception exc
Raise(t, exc) ==
    /\ ret' = Raised(th[t].fn, th[t].user_id, exc)
    /\ th' = [th EXCEPT ![t] = Idle]

\* a worker thread picks up a click or a call
Call(t, fn, uid, files, query) ==
    /\ th[t].pc = "idle"
    /\ ncalls < MaxCalls
    /\ ncalls' = ncalls + 1
    /\ th' = [th EXCEPT ![t] = [Idle EXCEPT !.pc = "get_user_dir", !.fn = fn,
                                             !.user_id = uid, !.files = files,
                                             !.query = query]]
    /\ UNCHANGED <<fs, document_store, ret, user_id>>

call_add_files(t, uid, files) == Call(t, "add_files", uid, files, "none")

call_delete_files(t, uid) == Call(t, "delete_files", uid, <<>>, "none")

call_run_search(t, uid, query) == Call(t, "run_search", uid, <<>>, query)

\* user_dir = get_user_dir(user_id), first statement of each handler
step_get_user_dir(t) ==
    /\ th[t].pc = "get_user_dir"
    /\ fs' = get_user_dir(fs, th[t].user_id)
    /\ Goto(t, CASE th[t].fn = "add_files" -> "write"
                 [] th[t].fn = "delete_files" -> "rmtree"
                 [] OTHER -> "walk")
    /\ UNCHANGED <<document_store, ret, ncalls, user_id>>

\* add_files: one round of the loop
step_write(t) ==
    /\ th[t].pc = "write"
    /\ th[t].i <= Len(th[t].files)
    /\ CanOpen(fs, th[t].user_id)
    /\ fs' = WriteFile(fs, th[t].user_id, th[t].files[th[t].i])
    /\ th' = [th EXCEPT ![t].i = @ + 1]
    /\ UNCHANGED <<document_store, ret, ncalls, user_id>>

\* add_files: open() finds the directory gone
step_write_raises(t) ==
    /\ th[t].pc = "write"
    /\ th[t].i <= Len(th[t].files)
    /\ ~CanOpen(fs, th[t].user_id)
    /\ Raise(t, "FileNotFoundError")
    /\ UNCHANGED <<fs, document_store, ncalls, user_id>>

\* add_files: the return after the loop
step_add_returns(t) ==
    /\ th[t].pc = "write"
    /\ th[t].i > Len(th[t].files)
    /\ Return(t, AddedMsg(th[t].files))
    /\ UNCHANGED <<fs, document_store, ncalls, user_id>>

\* delete_files: shutil.rmtree(user_dir)
step_rmtree(t) ==
    /\ th[t].pc = "rmtree"
    /\ fs[th[t].user_id].exists
    /\ fs' = rmtree(fs, th[t].user_id)
    /\ Goto(t, "makedirs")
    /\ UNCHANGED <<document_store, ret, ncalls, user_id>>

\* delete_files: rmtree of a directory that is gone
step_rmtree_raises(t) ==
    /\ th[t].pc = "rmtree"
    /\ ~fs[th[t].user_id].exists
    /\ Raise(t, "FileNotFoundError")
    /\ UNCHANGED <<fs, document_store, ncalls, user_id>>

\* delete_files: os.makedirs(user_dir) and the return
step_makedirs(t) ==
    /\ th[t].pc = "makedirs"
    /\ ~fs[th[t].user_id].exists
    /\ fs' = makedirs(fs, th[t].user_id)
    /\ Return(t, DeletedMsg)
    /\ UNCHANGED <<document_store, ncalls, user_id>>

\* delete_files: os.makedirs without exist_ok on a directory that is back
step_makedirs_raises(t) ==
    /\ th[t].pc = "makedirs"
    /\ fs[th[t].user_id].exists
    /\ Raise(t, "FileExistsError")
    /\ UNCHANGED <<fs, document_store, ncalls, user_id>>

\* run_search: os.walk lists the directory
step_walk(t) ==
    /\ th[t].pc = "walk"
    /\ th' = [th EXCEPT ![t].todo = walk(fs, th[t].user_id), ![t].pc = "convert"]
    /\ UNCHANGED <<fs, document_store, ret, ncalls, user_id>>

\* the listed file n can still be read
Readable(f, uid, n) == f[uid].exists /\ n \in DOMAIN f[uid].files

\* run_search: one listed file without a converter
step_skip(t, n) ==
    /\ th[t].pc = "convert"
    /\ n \in th[t].todo
    /\ ~HasConverter(n)
    /\ th' = [th EXCEPT ![t].todo = @ \ {n}]
    /\ UNCHANGED <<fs, document_store, ret, ncalls, user_id>>

\* run_search: one listed file converted and split
step_convert(t, n) ==
    /\ th[t].pc = "convert"
    /\ n \in th[t].todo
    /\ HasConverter(n)
    /\ Readable(fs, th[t].user_id, n)
    /\ ~ConvertFails(fs[th[t].user_id].files[n])
    /\ th' = [th EXCEPT ![t].todo = @ \ {n},
                        ![t].all_docs = @ \cup Passages(th[t].user_id, n,
                                                        fs[th[t].user_id].files[n])]
    /\ UNCHANGED <<fs, document_store, ret, ncalls, user_id>>

\* run_search: the converter raises on the file
step_convert_raises(t, n) ==
    /\ th[t].pc = "convert"
    /\ n \in th[t].todo
    /\ HasConverter(n)
    /\ Readable(fs, th[t].user_id, n)
    /\ ConvertFails(fs[th[t].user_id].files[n])
    /\ Raise(t, "ExtractionError")
    /\ UNCHANGED <<fs, document_store, ncalls, user_id>>

\* run_search: the listed file was removed before the converter opened it
step_convert_missing(t, n) ==
    /\ th[t].pc = "convert"
    /\ n \in th[t].todo
    /\ HasConverter(n)
    /\ ~Readable(fs, th[t].user_id, n)
    /\ Raise(t, "FileNotFoundError")
    /\ UNCHANGED <<fs, document_store, ncalls, user_id>>

\* run_search: document_store.delete_documents()
step_delete_documents(t) ==
    /\ th[t].pc = "convert"
    /\ th[t].todo = {}
    /\ document_store' = delete_documents(document_store)
    /\ Goto(t, "write_documents")
    /\ UNCHANGED <<fs, ret, ncalls, user_id>>

\* run_search: document_store.write_documents(all_docs)
step_write_documents(t) ==
    /\ th[t].pc = "write_documents"
    /\ document_store' = write_documents(document_store, th[t].all_docs)
    /\ Goto(t, "pipeline_run")
    /\ UNCHANGED <<fs, ret, ncalls, user_id>>

\* run_search: pipeline.run raises
step_pipeline_raises(t) ==
    /\ th[t].pc = "pipeline_run"
    /\ Raise(t, "PipelineError")
    /\ UNCHANGED <<fs, document_store, ncalls, user_id>>

\* run_search: pipeline.run answers, the answers are rendered and returned
step_pipeline_run(t) ==
    /\ th[t].pc = "pipeline_run"
    /\ \E answers \in PipelineAnswers(document_store, th[t].query) :
          Return(t, Render(answers))
    /\ UNCHANGED <<fs, document_store, ncalls, user_id>>

NextConc ==
    \/ \E t \in Threads, uid \in Tokens, files \in OneFileLists : call_add_files(t, uid, files)
    \/ \E t \in Threads, uid \in Tokens : call_delete_files(t, uid)
    \/ \E t \in Threads, uid \in Tokens, query \in Queries : call_run_search(t, uid, query)
    \/ \E t \in Threads : step_get_user_dir(t)
    \/ \E t \in Threads : step_write(t)
    \/ \E t \in Threads : step_write_raises(t)
    \/ \E t \in Threads : step_add_returns(t)
    \/ \E t \in Threads : step_rmtree(t)
    \/ \E t \in Threads : step_rmtree_raises(t)
    \/ \E t \in Threads : step_makedirs(t)
    \/ \E t \in Threads : step_makedirs_raises(t)
    \/ \E t \in Threads : step_walk(t)
    \/ \E t \in Threads, n \in FileNames : step_skip(t, n)
    \/ \E t \in Threads, n \in FileNames : step_convert(t, n)
    \/ \E t \in Threads, n \in FileNames : step_convert_raises(t, n)
    \/ \E t \in Threads, n \in FileNames : step_convert_missing(t, n)
    \/ \E t \in Threads : step_delete_documents(t)
    \/ \E t \in Threads : step_write_documents(t)
    \/ \E t \in Threads : step_pipeline_raises(t)
    \/ \E t \in Threads : step_pipeline_run(t)

SpecConc == Init /\ [][NextConc]_vars

(* ---------------------------- the buttons of demo ---------------------- *)

\* demo is built once at import: user_id = str(uuid.uuid4())
InitGui ==
    /\ fs = [s \in Tokens |-> AbsentDir]
    /\ document_store = {}
    /\ ret = NoCall
    /\ th = [t \in Threads |-> Idle]
    /\ ncalls = 0
    /\ user_id \in Tokens

\* gr.State(user_id): the value the handler receives for the user's browser session
gr_State(u) == user_id

\* upload_button.click(fn=add_files, inputs=[gr.State(user_id), upload])
upload_button_click(u, files) == add_files(gr_State(u), files)

\* delete_button.click(fn=delete_files, inputs=gr.State(user_id))
delete_button_click(u) == delete_files(gr_State(u))

\* search_button.click(fn=run_search, inputs=[gr.State(user_id), query])
search_button_click(u, query) == run_search(gr_State(u), query)

NextGui ==
    \/ \E u \in Users, files \in FileLists : upload_button_click(u, files)
    \/ \E u \in Users : delete_button_click(u)
    \/ \E u \in Users, query \in Queries : search_button_click(u, query)

SpecGui == InitGui /\ [][NextGui]_vars

(* ---------------------------- uploads of several files ----------------- *)

\* what a session directory can be: absent, or holding any files
DirStates ==
    {AbsentDir} \cup
    { [exists |-> TRUE, files |-> g] :
        g \in UNION {[S -> Contents] : S \in SUBSET FileNames} }

\* a worker thread has picked up add_files(uid, files), the upload widget
\* holding up to MaxBatch files (file_count="multiple"); SESSIONS_DIR is in
\* the system's temporary directory and holds what earlier calls left for uid
InitUpload ==
    /\ \E uid \in Tokens, d \in DirStates :
          fs = [s \in Tokens |-> IF s = uid THEN d ELSE AbsentDir]
    /\ document_store = {}
    /\ ret = NoCall
    /\ \E t \in Threads, uid \in Tokens, files \in BatchLists :
          th = [x \in Threads |->
                  IF x = t
                  THEN [Idle EXCEPT !.pc = "get_user_dir", !.fn = "add_files",
                                    !.user_id = uid, !.files = files]
                  ELSE Idle]
    /\ ncalls = 1
    /\ user_id = CHOOSE s \in Tokens : TRUE

\* the call followed statement by statement to its return
NextUpload ==
    \/ \E t \in Threads : step_get_user_dir(t)
    \/ \E t \in Threads : step_write(t)
    \/ \E t \in Threads : step_add_returns(t)

SpecUpload == InitUpload /\ [][NextUpload]_vars

(* ---------------------------- properties ------------------------------- *)

\* the stored names whose extension is .pdf, .txt or .docx in any letter case
ExpectedRecognized == {A_TXT, B_PDF}

\* the passages that the recognized files now stored for uid give
ExpectedPassages(uid) ==
    { [content |-> fs[uid].files[n], meta |-> [name |-> n, path |-> <<uid, n>>]] :
        n \in DOMAIN fs[uid].files \cap ExpectedRecognized }

\* the last call was a run_search that got as far as pipeline.run
SearchReachedPipeline ==
    ret.fn = "run_search" /\ ret.raised \in {NoException, "PipelineError"}

\* C1: every answer a run_search(s2, q) returns comes from a file stored in s2's
\* directory, whatever calls of another session interleave with it.
C1_AnswersFromOwnSession ==
    (ret.fn = "run_search" /\ ret.raised = NoException)
        => \A b \in BlocksOf(ret.value) : b.Chemin[1] = ret.user_id

\* C2: two users of one running page work under different tokens, so an upload
\* by one user adds no file to the directory the other user's clicks work on.
C2_UsersHaveOwnDirectory ==
    [][\A u \in Users, files \in FileLists :
          upload_button_click(u, files)
            => \A v \in Users \ {u} :
                  /\ gr_State(v) # gr_State(u)
                  /\ walk(fs', gr_State(v)) = walk(fs, gr_State(v))]_vars

\* C3: right after a delete_files(s) that returned, s's directory exists and
\* lists no file.
C3_DeleteLeavesEmptyDir ==
    (ret.fn = "delete_files" /\ ret.raised = NoException)
        => fs[ret.user_id].exists /\ walk(fs, ret.user_id) = {}

\* the directory was populated and indexed before it was cleared
C3_Witness ==
    /\ ret.fn = "delete_files"
    /\ ret.raised = NoException
    /\ \E d \in document_store : d.meta.path[1] = ret.user_id

\* C4: a run_search on a session whose directory holds no file returns the
\* "no results" message (or is left by a failure of pipeline.run), whatever is
\* in the index from the searches before it. (run_search writes no file, so
\* the directory listed after the call is the one the call walked.)
C4_EmptySessionNoResults ==
    (ret.fn = "run_search" /\ walk(fs, ret.user_id) = {})
        => \/ ret.raised = "PipelineError"
           \/ ret = Returned("run_search", ret.user_id, <<NoResultsMsg>>)

\* an empty session answered "no results" while another session holds files
\* that convert
C4_Witness ==
    /\ ret.fn = "run_search"
    /\ ret.value = <<NoResultsMsg>>
    /\ walk(fs, ret.user_id) = {}
    /\ \E s \in Tokens \ {ret.user_id} : A_TXT \in walk(fs, s) /\ fs[s].files[A_TXT] = "fox"

\* C5: when pipeline.run is invoked the index holds exactly the passages of
\* the recognized files now stored for the searching session.
C5_IndexIsSessionPassages ==
    SearchReachedPipeline => document_store = ExpectedPassages(ret.user_id)

\* a search indexed one session's file while both sessions hold recognized
\* files and the searching one also holds a file without converter
C5_Witness ==
    /\ SearchReachedPipeline
    /\ document_store # {}
    /\ N_MD \in walk(fs, ret.user_id)
    /\ \E s \in Tokens \ {ret.user_id} : walk(fs, s) \cap ExpectedRecognized # {}

\* C6: add_files(s, [f]) leaves one file of f's base name holding f's bytes,
\* also when a file of that name was there, and leaves every other file of s
\* and every other session as it was.
C6_AddOverwritesByName ==
    [][(ret'.fn = "add_files" /\ ret'.value[1] = 1)
          => \A f \in Uploads :
                add_files(ret'.user_id, <<f>>)
                  => LET s == ret'.user_id
                         name == f.name[2]
                     IN  /\ fs'[s].exists
                         /\ DOMAIN fs'[s].files = walk(fs, s) \cup {name}
                         /\ fs'[s].files[name] = f.bytes
                         /\ \A n \in walk(fs, s) \ {name} : fs'[s].files[n] = fs[s].files[n]
                         /\ \A o \in Tokens \ {s} : fs'[o] = fs[o]]_vars

\* a.txt was indexed with its first bytes and holds other bytes after a later
\* add_files, next to another file of the session
C6_Witness ==
    /\ ret.fn = "add_files"
    /\ \E d \in document_store :
          /\ d.meta.path = <<ret.user_id, A_TXT>>
          /\ d.content = "fox"
    /\ A_TXT \in walk(fs, ret.user_id)
    /\ fs[ret.user_id].files[A_TXT] = "bad"
    /\ Cardinality(walk(fs, ret.user_id)) >= 2

\* C7: a stored file gives passages to a search exactly when its extension is
\* .pdf, .txt or .docx in any letter case; a file of another extension neither
\* makes the search raise nor is named by an answer.
C7_OnlyRecognizedExtensions ==
    ret.fn = "run_search" =>
        /\ SearchReachedPipeline =>
              \A n \in walk(fs, ret.user_id) :
                  (\E d \in document_store : d.meta.path = <<ret.user_id, n>>)
                      <=> n \in ExpectedRecognized
        /\ \A b \in BlocksOf(ret.value) : b.Fichier \in ExpectedRecognized
        /\ ret.raised = "ExtractionError" =>
              \E n \in walk(fs, ret.user_id) \cap ExpectedRecognized :
                  fs[ret.user_id].files[n] = "bad"

\* b.PDF is the source of an answer while n.md, with bytes no converter reads,
\* is stored next to it
C7_Witness ==
    /\ ret.fn = "run_search"
    /\ \E b \in BlocksOf(ret.value) : b.Fichier = B_PDF
    /\ N_MD \in walk(fs, ret.user_id)
    /\ fs[ret.user_id].files[N_MD] = "bad"

\* C8: a file whose extraction fails is skipped: the search does not fail and
\* the passages of the other recognized files are in the index.
C8_ExtractionFailureIsSkipped ==
    ret.fn = "run_search" =>
        /\ ret.raised # "ExtractionError"
        /\ \A n \in walk(fs, ret.user_id) \cap ExpectedRecognized :
              fs[ret.user_id].files[n] # "bad"
                  => \E d \in document_store : d.meta.path = <<ret.user_id, n>>

\* C9: when pipeline.run fails the call ends with that failure alone: no
\* value is returned and no answer block is rendered.
C9_PipelineFailureFailsCall ==
    [][\A s \in Tokens, q \in Queries :
          (ret'.user_id = s /\ ret'.fn = "run_search" /\ run_search_pipeline_raises(s, q))
            => /\ ret' = Raised("run_search", s, "PipelineError")
               /\ BlocksOf(ret'.value) = {}
               /\ ret'.value # <<NoResultsMsg>>]_vars

\* pipeline.run failed on an index that held passages to answer from
C9_Witness ==
    /\ ret.fn = "run_search"
    /\ ret.raised = "PipelineError"
    /\ document_store # {}

\* get_user_dir twice gives what get_user_dir once gives, a directory that exists
GetUserDirIdempotent(f) ==
    \A s \in Tokens :
        /\ get_user_dir(f, s)[s].exists
        /\ get_user_dir(get_user_dir(f, s), s) = get_user_dir(f, s)

\* C10: get_user_dir is idempotent and its directory exists; the directory of
\* a session exists after every call on it and after every later call on any
\* session: a session never goes back to absent.
C10_SessionNeverAbsentAgain ==
    [][/\ GetUserDirIdempotent(fs')
       /\ \A s \in Tokens : fs[s].exists => fs'[s].exists
       /\ ret'.fn # "none" => fs'[ret'.user_id].exists]_vars

\* one session was cleared, the other is populated, both after several calls
C10_Witness ==
    /\ ret.fn = "delete_files"
    /\ fs[ret.user_id] = EmptyDir
    /\ \E s \in Tokens \ {ret.user_id} : walk(fs, s) = FileNames

\* C11: a step of add_files(s1, ...) or of delete_files(s1) leaves the
\* directory of every other session, its files and their bytes, as it was,
\* whatever the other thread is doing.
C11_OtherSessionsUntouched ==
    [][\A t \in Threads :
          (th'[t] # th[t] /\ th[t].fn \in {"add_files", "delete_files"})
            => \A s2 \in Tokens \ {th[t].user_id} : fs'[s2] = fs[s2]]_vars

\* a delete_files returned while the other session holds a file and the other
\* thread is inside a call
C11_Witness ==
    /\ ret.fn = "delete_files"
    /\ ret.raised = NoException
    /\ \E s2 \in Tokens \ {ret.user_id} : walk(fs, s2) # {}
    /\ \E t \in Threads : th[t].pc \in {"write", "rmtree", "makedirs"}

\* the last position of `files` that has the path of position i
LastWithName(files, i) == Max({j \in 1..Len(files) : files[j].name = files[i].name})

\* C12: add_files(s, files) writes every file of `files` into s's directory
\* under its base name (a name given twice ends with the bytes given last) and
\* the count of its message is the number of files it was handed and wrote.
C12_AddWritesAllAndCounts ==
    [][\A t \in Threads :
          (th[t].fn = "add_files" /\ th[t].pc = "write" /\ th'[t].pc = "idle")
            => LET s == th[t].user_id
                   files == th[t].files
               IN  /\ ret' = Returned("add_files", s, ret'.value)
                   /\ ret'.value[1] = Len(files)
                   /\ ret'.value[1] = th[t].i - 1
                   /\ fs'[s].exists
                   /\ \A i \in 1..Len(files) :
                         /\ files[i].name[2] \in DOMAIN fs'[s].files
                         /\ fs'[s].files[files[i].name[2]]
                               = files[LastWithName(files, i)].bytes]_vars

\* an upload of two files of one name has returned: the message counts 2 and
\* the directory holds the one file
C12_Witness ==
    /\ ret.fn = "add_files"
    /\ ret.value[1] = 2
    /\ Cardinality(walk(fs, ret.user_id)) = 1

\* the piece that renders answer a, field by field
ExpectedBlock(a) ==
    [kind |-> "block", Extrait |-> a.context, Fichier |-> a.meta.name, Chemin |-> a.meta.path]

\* C13: run_search returns one block per answer of the pipeline (at most 5),
\* in the pipeline's order, with the divider between neighbours; it returns
\* the "no results" message exactly when there is no answer, and never an
\* empty value.
C13_RenderedAsAnswered ==
    [][(ret'.fn = "run_search" /\ ret'.raised = NoException)
          => \A q \in Queries : \A answers \in PipelineAnswers(document_store', q) :
                (ret' = Returned("run_search", ret'.user_id, Render(answers)))
                  => LET out == ret'.value
                         n == Len(answers)
                     IN  /\ n <= Reader_top_k
                         /\ out # <<>>
                         /\ (out = <<NoResultsMsg>>) <=> (n = 0)
                         /\ n > 0 => Len(out) = 2 * n - 1
                         /\ \A i \in 1..n : out[2 * i - 1] = ExpectedBlock(answers[i])
                         /\ \A i \in 1..(n - 1) : out[2 * i] = Divider]_vars

\* two answers from different files came back as block, divider, block
C13_Witness ==
    /\ ret.fn = "run_search"
    /\ Len(ret.value) = 3
    /\ ret.value[2] = Divider
    /\ ret.value[1].kind = "block"
    /\ ret.value[3].kind = "block"
    /\ ret.value[1].Fichier # ret.value[3].Fichier

\* the exceptions of a path that another thread removed or put back
RaceErrors == {"FileNotFoundError", "FileExistsError"}

\* C14: delete_files(s) completes without error and leaves s's directory in
\* place although another call on s runs between its statements, and no
\* add_files(s) or run_search(s) fails because the directory or a listed file
\* went away under it.
C14_NoFailureFromInterleaving ==
    /\ ret.raised \notin RaceErrors
    /\ (ret.fn = "delete_files" /\ ret.raised = NoException /\ AllIdle)
          => fs[ret.user_id].exists

\* C15: run_search leaves the files of every session, its own included, and
\* their bytes as they were; of the directories it changes only its own, from
\* absent to empty.
C15_SearchWritesNoFile ==
    [][ret'.fn = "run_search"
          => \A s \in Tokens :
                /\ fs'[s].files = fs[s].files
                /\ fs'[s].exists # fs[s].exists
                      => s = ret'.user_id /\ fs[s] = AbsentDir /\ fs'[s] = EmptyDir]_vars

\* a search returned answers on a session that holds all three files while
\* the other session holds files too
C15_Witness ==
    /\ ret.fn = "run_search"
    /\ ret.raised = NoException
    /\ BlocksOf(ret.value) # {}
    /\ walk(fs, ret.user_id) = FileNames
    /\ \E s \in Tokens \ {ret.user_id} : walk(fs, s) # {}

====
